---- MODULE Spec2Model ----
(***************************************************************************)
(* Volume Profile / Value Area / signal pipeline of src/app.py.            *)
(*                                                                         *)
(* One run of the Streamlit script: the data source returns a candle       *)
(* window (df), calculate_vp builds the 120-bin histogram of the closes    *)
(* weighted by volume, finds the POC bin and expands the value area one    *)
(* bin per loop iteration, and the main script derives LONG/SHORT/WAIT.    *)
(*                                                                         *)
(* Numbers.  Candle prices are integer ticks and volumes are naturals.     *)
(* A bin edge is first_edge + i*(last_edge-first_edge)/120, and numpy      *)
(* widens a zero range by 0.5 on each side, so every price the program     *)
(* handles is a multiple of 1/(2*120) tick: prices are kept as integers    *)
(* in that unit (Scale).  va_pct is a number of hundredths (VaDen), so     *)
(* target is kept in hundredths of a volume unit.  Floating-point          *)
(* rounding is outside this model.                                         *)
(*                                                                         *)
(* Inputs.  The sidebar values va_percent and risk_reward do not change    *)
(* during a run; each is drawn where the script first reads it (the call   *)
(* on line 172, the signal rule on lines 186/191).  iters, reads and       *)
(* raised are history variables: iterations done, hist indices evaluated   *)
(* by the last iteration, and whether the except clause was entered.       *)
(***************************************************************************)
EXTENDS Integers, Sequences, FiniteSets, TLC

\* ---- program constants -------------------------------------------------
NBINS == 120
VaDen == 100

\* ---- bounds of the model -----------------------------------------------
\* Longest candle window the data source returns.
MaxLen == 3

\* Volumes of a candle.
VolSet == {0, 1, 2}

\* Close prices offered by the data source, in ticks.  1000 and 1120 together
\* give a range of 120 ticks, hence bins one tick wide, so that 1000 and 1001
\* fall into adjacent bins; 1000 and 1001 alone fall into the two outer bins.
PriceSet == {1000, 1001, 1120}
\* Distance of Low below and of High above the Close of a candle, in ticks.
WickSet == {0, 120}
\* Slider positions of "Value Area %" (hundredths) and values of R:R.
VaChoices == {50, 90}
RRChoices == {1, 2, 3}

Scale == 2 * NBINS

VARIABLES pc, df, va_pct, hist, bins, max_idx, poc, target, curr, up, down,
          iters, reads, raised, vp_data, vah, val, risk_reward, signal, sl, tp

vars == <<pc, df, va_pct, hist, bins, max_idx, poc, target, curr, up, down,
          iters, reads, raised, vp_data, vah, val, risk_reward, signal, sl, tp>>

\* Python's None is the empty set and a present value x is {x}, for vp_data,
\* sl and tp, the three names the program binds to None.
None == {}
Some(x) == {x}

\* ---- numpy / pandas primitives -----------------------------------------
MinOf(S) == CHOOSE x \in S : \A y \in S : x <= y
MaxOf(S) == CHOOSE x \in S : \A y \in S : x >= y

Column(d, name) == {d[i][name] : i \in 1..Len(d)}

\* np.histogram's outer edges, in half ticks: the range of the data, widened
\* by 0.5 on each side when it is empty.
first_edge2(a) ==
    IF MinOf(a) = MaxOf(a) THEN 2 * MinOf(a) - 1 ELSE 2 * MinOf(a)
last_edge2(a) ==
    IF MinOf(a) = MaxOf(a) THEN 2 * MaxOf(a) + 1 ELSE 2 * MaxOf(a)

\* The NBINS+1 equally spaced edges between the outer edges f and l (half
\* ticks), in units of 1/Scale tick.
linspace(f, l) == [i \in 0..NBINS |-> NBINS * f + i * (l - f)]

\* Mutant of bin_edges: edges spanning min(Low)..max(High).
bin_edges_low_high(d) ==
    linspace(first_edge2(Column(d, "Low")), last_edge2(Column(d, "High")))

bin_edges(d) ==
    linspace(first_edge2(Column(d, "Close")), last_edge2(Column(d, "Close")))

\* Index of the bin the value c (ticks) falls in: half-open bins, the last
\* one closed.
bin_index(c, f, l) ==
    IF ((2 * c - f) * NBINS) \div (l - f) = NBINS
    THEN NBINS - 1
    ELSE ((2 * c - f) * NBINS) \div (l - f)

\* Sum of the weights of the first i rows of d that fall in bin b.
RECURSIVE weight_in(_, _, _, _, _)
weight_in(d, i, b, f, l) ==
    IF i = 0 THEN 0
    ELSE weight_in(d, i - 1, b, f, l)
         + (IF bin_index(d[i].Close, f, l) = b THEN d[i].Volume ELSE 0)

\* hist of np.histogram(close, bins=120, weights=vol)
histogram(d) ==
    LET f == first_edge2(Column(d, "Close"))
        l == last_edge2(Column(d, "Close"))
    IN [b \in 0..(NBINS - 1) |-> weight_in(d, Len(d), b, f, l)]

\* hist.sum(): the sum of h over lo..hi, by halves.
RECURSIVE sum_range(_, _, _)
sum_range(h, lo, hi) ==
    IF lo > hi THEN 0
    ELSE IF lo = hi THEN h[lo]
    ELSE LET mid == (lo + hi) \div 2
         IN sum_range(h, lo, mid) + sum_range(h, mid + 1, hi)
hist_sum(h) == sum_range(h, 0, NBINS - 1)

\* Mutant of argmax: the last index of the maximum.
argmax_last(h) ==
    LET mx == MaxOf({h[i] : i \in DOMAIN h})
    IN MaxOf({i \in DOMAIN h : h[i] = mx})

\* hist.argmax(): the index of the maximum, the first one when it occurs
\* several times.
argmax(h) ==
    LET mx == MaxOf({h[i] : i \in DOMAIN h})
    IN MinOf({i \in DOMAIN h : h[i] = mx})

\* Python indexing of an array of length n: a negative index counts from the
\* end; an index >= n raises IndexError (see Iterate).
item(h, n, i) == IF i < 0 THEN h[n + i] ELSE h[i]

\* ---- the expansion loop of calculate_vp, lines 134-147 -------------------
len_hist == NBINS

loop_cond(c, t) == c * VaDen < t

\* Mutant of can_up: the bound off by one.
can_up_off_by_one(u) == u < len_hist

can_up(u) == u < len_hist - 1
can_down(d) == d > 0

\* Indices of hist one iteration evaluates.
read_idx(u, d) ==
    (IF can_up(u) THEN {u + 1} ELSE {}) \cup (IF can_down(d) THEN {d - 1} ELSE {})

index_error(n, i) == i >= n \/ i < -n

v_up(h, u) == IF can_up(u) THEN item(h, len_hist, u + 1) ELSE -1
v_down(h, d) == IF can_down(d) THEN item(h, len_hist, d - 1) ELSE -1

\* Mutant of goes_up: a tie goes down.
goes_up_strict(h, u, d) == v_up(h, u) > v_down(h, d)

goes_up(h, u, d) == v_up(h, u) >= v_down(h, d)

\* One pass through lines 142-147 on the triple (up, down, curr).
step(h, s) ==
    IF goes_up(h, s.up, s.down)
    THEN [up |-> s.up + 1, down |-> s.down, curr |-> s.curr + v_up(h, s.up)]
    ELSE [up |-> s.up, down |-> s.down - 1, curr |-> s.curr + v_down(h, s.down)]

\* Mutants of target_of: the fraction of the largest bin instead of the total,
\* and the complementary fraction of the total.
target_of_max(h, va) == MaxOf({h[i] : i \in DOMAIN h}) * va
target_of_complement(h, va) == hist_sum(h) * (VaDen - va)

target_of(h, va) == hist_sum(h) * va

\* The loop from the state s towards the target t: its test and its body, or
\* no change once the test fails or line 137 breaks.
advance(h, s, t) ==
    IF ~loop_cond(s.curr, t) \/ (~can_up(s.up) /\ ~can_down(s.down))
    THEN s
    ELSE step(h, s)

\* advance applied n times, by halves; a state advance leaves unchanged is
\* final.
RECURSIVE advance_n(_, _, _, _)
advance_n(h, s, t, n) ==
    IF n = 0 THEN s
    ELSE IF n = 1 THEN advance(h, s, t)
    ELSE LET half == advance_n(h, s, t, n \div 2)
         IN IF half = s THEN s ELSE advance_n(h, half, t, n - (n \div 2))

\* (up, down, curr) when the loop of lines 131-147 ends for the fraction va:
\* no run takes more than len_hist iterations (C2).
expand(h, va) ==
    LET m == argmax(h)
    IN advance_n(h, [up |-> m, down |-> m, curr |-> h[m]], target_of(h, va),
                 len_hist)

\* Line 154: the levels returned next to vp_data and poc.
\* Mutant of ret_vah: the lower edge returned as vah.
ret_vah_down(b, u, d) == item(b, NBINS + 1, d)

ret_vah(b, u, d) == item(b, NBINS + 1, u)
ret_val(b, u, d) == item(b, NBINS + 1, d)

\* ---- the signal rule of the main script, lines 175-191 -------------------
\* Mutant of iloc_last: the first row.
iloc_first(d) == d[1]

\* .iloc[-1] of the frame's columns
iloc_last(d) == d[Len(d)]

long_cond(row, v) == row.Low * Scale < v /\ row.Close * Scale > v
short_cond(row, v) == row.High * Scale > v /\ row.Close * Scale < v

\* Mutant of evaluate: the SHORT branch tested first.
evaluate_short_first(d, lo, hi, rr) ==
    LET row == iloc_last(d)
        last == row.Close
    IN IF short_cond(row, hi)
       THEN [signal |-> "SHORT", sl |-> Some(row.High),
             tp |-> Some(last - (row.High - last) * rr)]
       ELSE IF long_cond(row, lo)
       THEN [signal |-> "LONG", sl |-> Some(row.Low),
             tp |-> Some(last + (last - row.Low) * rr)]
       ELSE [signal |-> "WAIT", sl |-> None, tp |-> None]

evaluate(d, lo, hi, rr) ==
    LET row == iloc_last(d)
        last == row.Close
    IN IF long_cond(row, lo)
       THEN [signal |-> "LONG", sl |-> Some(row.Low),
             tp |-> Some(last + (last - row.Low) * rr)]
       ELSE IF short_cond(row, hi)
       THEN [signal |-> "SHORT", sl |-> Some(row.High),
             tp |-> Some(last - (row.High - last) * rr)]
       ELSE [signal |-> "WAIT", sl |-> None, tp |-> None]

\* ---- state machine -------------------------------------------------------
Init ==
    /\ pc = "fetch"
    /\ df = <<>>
    /\ va_pct = 0
    /\ hist = <<>>
    /\ bins = <<>>
    /\ max_idx = 0
    /\ poc = 0
    /\ target = 0
    /\ curr = 0
    /\ up = 0
    /\ down = 0
    /\ iters = 0
    /\ reads = {}
    /\ raised = FALSE
    /\ vp_data = None
    /\ vah = 0
    /\ val = 0
    /\ risk_reward = 0
    /\ signal = ""
    /\ sl = None
    /\ tp = None

\* The data source (generate_mock_data / get_real_data) hands back a window of
\* candles, possibly empty.
FetchData ==
    /\ pc = "fetch"
    /\ \E n \in 0..MaxLen, w \in WickSet :
         \E rows \in [1..n -> PriceSet \X VolSet] :
            df' = [i \in 1..n |->
                     [Close |-> rows[i][1], Volume |-> rows[i][2],
                      Low |-> rows[i][1] - w, High |-> rows[i][1] + w]]
    /\ pc' = "main"
    /\ UNCHANGED <<va_pct, hist, bins, max_idx, poc, target, curr, up, down, iters,
                   reads, raised, vp_data, vah, val, risk_reward, signal, sl, tp>>

\* Line 170 with an empty frame: the else branch on lines 258-260.
NoData ==
    /\ pc = "main"
    /\ df = <<>>
    /\ pc' = "done"
    /\ UNCHANGED <<df, va_pct, hist, bins, max_idx, poc, target, curr, up, down,
                   iters, reads, raised, vp_data, vah, val, risk_reward, signal,
                   sl, tp>>

\* Line 172 calls calculate_vp(df, va_percent); lines 120-131 run.
CalcStart ==
    /\ pc = "main"
    /\ df # <<>>
    /\ hist' = histogram(df)
    /\ bins' = bin_edges(df)
    /\ \E va \in VaChoices :
         /\ va_pct' = va
         /\ target' = target_of(hist', va)
    /\ max_idx' = argmax(hist')
    /\ poc' = bins'[max_idx']
    /\ curr' = hist'[max_idx']
    /\ up' = max_idx'
    /\ down' = max_idx'
    /\ pc' = "loop"
    /\ UNCHANGED <<df, iters, reads, raised, vp_data, vah, val, risk_reward,
                   signal, sl, tp>>

\* The except clause on lines 155-156.
Except ==
    /\ raised' = TRUE
    /\ vp_data' = None
    /\ poc' = 0
    /\ vah' = 0
    /\ val' = 0
    /\ pc' = "signal"

\* Lines 134-147: the loop test and, when it passes, one iteration.
Iterate ==
    /\ pc = "loop"
    /\ IF ~loop_cond(curr, target) \/ (~can_up(up) /\ ~can_down(down))
       THEN /\ pc' = "ret"
            /\ UNCHANGED <<up, down, curr, iters, reads, raised, vp_data, poc,
                           vah, val>>
       ELSE IF \E i \in read_idx(up, down) : index_error(len_hist, i)
       THEN /\ Except
            /\ reads' = read_idx(up, down)
            /\ UNCHANGED <<up, down, curr, iters>>
       ELSE /\ up' = step(hist, [up |-> up, down |-> down, curr |-> curr]).up
            /\ down' = step(hist, [up |-> up, down |-> down, curr |-> curr]).down
            /\ curr' = step(hist, [up |-> up, down |-> down, curr |-> curr]).curr
            /\ iters' = iters + 1
            /\ reads' = read_idx(up, down)
            /\ pc' = "loop"
            /\ UNCHANGED <<raised, vp_data, poc, vah, val>>
    /\ UNCHANGED <<df, va_pct, hist, bins, max_idx, target, risk_reward, signal,
                   sl, tp>>

\* Lines 150-154: build vp_data and return it with poc, bins[up], bins[down].
Return ==
    /\ pc = "ret"
    /\ IF index_error(NBINS + 1, up) \/ index_error(NBINS + 1, down)
       THEN Except
       ELSE /\ vp_data' = Some([price |-> [i \in 0..(NBINS - 1) |-> bins[i]],
                                volume |-> hist])
            /\ vah' = ret_vah(bins, up, down)
            /\ val' = ret_val(bins, up, down)
            /\ pc' = "signal"
            /\ UNCHANGED <<raised, poc>>
    /\ UNCHANGED <<df, va_pct, hist, bins, max_idx, target, curr, up, down, iters,
                   reads, risk_reward, signal, sl, tp>>

\* Lines 174-191 (signal) and 256-257 (no profile).
Signal ==
    /\ pc = "signal"
    /\ IF vp_data = None
       THEN UNCHANGED <<risk_reward, signal, sl, tp>>
       ELSE \E rr \in RRChoices :
              /\ risk_reward' = rr
              /\ signal' = evaluate(df, val, vah, rr).signal
              /\ sl' = evaluate(df, val, vah, rr).sl
              /\ tp' = evaluate(df, val, vah, rr).tp
    /\ pc' = "done"
    /\ UNCHANGED <<df, va_pct, hist, bins, max_idx, poc, target, curr, up, down,
                   iters, reads, raised, vp_data, vah, val>>

Next == FetchData \/ NoData \/ CalcStart \/ Iterate \/ Return \/ Signal

Spec == Init /\ [][Next]_vars

\* ---- properties ---------------------------------------------------------
Bins == 0..(NBINS - 1)
InLoop == pc = "loop" \/ pc = "ret"
Returned == pc \in {"signal", "done"} /\ df # <<>>
Evaluated == pc = "done" /\ vp_data # None

\* C1: the returned levels satisfy val <= poc <= vah, and in every state of
\* the expansion loop down <= max_idx <= up.
C1_LevelsOrdered ==
    /\ InLoop => down <= max_idx /\ max_idx <= up
    /\ Returned => val <= poc /\ poc <= vah
C1_Witness == Returned /\ val < poc /\ poc < vah

\* C2: the loop takes fewer than bin_count iterations (each one widens the band
\* by one bin), evaluates hist only at indices 0..last, keeps 0 <= down and
\* up <= last, and never raises; with both sides exhausted the loop has stopped.
C2_LoopBounded ==
    /\ ~raised
    /\ reads \subseteq Bins
    /\ pc # "fetch" /\ df # <<>> /\ pc # "main" =>
          /\ 0 <= down /\ up <= NBINS - 1
          /\ iters = up - down
          /\ iters <= NBINS - 1
    /\ pc = "ret" => ~loop_cond(curr, target)
C2_Witness ==
    pc = "ret" /\ up = NBINS - 1 /\ down = 0 /\ iters = NBINS - 1 /\ 0 < max_idx

\* C3: when the expansion ends, the bins down..up are one band around the POC
\* bin, curr is the sum of exactly those bins, and that sum is at least
\* va_pct of the total volume.
C3_TargetMet ==
    pc = "ret" =>
        /\ down <= max_idx /\ max_idx <= up
        /\ curr = sum_range(hist, down, up)
        /\ sum_range(hist, down, up) * VaDen >= hist_sum(hist) * va_pct
C3_Witness ==
    /\ pc = "ret"
    /\ iters > 0
    /\ down < max_idx
    /\ sum_range(hist, down, up) < hist_sum(hist)

\* C4: for the histogram of the run, every smaller fraction f1 < va_pct ends
\* with a band inside the band of va_pct: up(f1) <= up, down(f1) >= down and
\* vah(f1) - val(f1) <= vah - val.
C4_Monotone ==
    pc = "ret" =>
        \A f1 \in VaChoices :
            f1 < va_pct =>
                LET e == expand(hist, f1)
                IN /\ e.up <= up
                   /\ e.down >= down
                   /\ bins[e.up] - bins[e.down] <= bins[up] - bins[down]
C4_Witness ==
    /\ pc = "ret"
    /\ \E f1 \in VaChoices :
          /\ f1 < va_pct
          /\ expand(hist, f1).up < up
          /\ expand(hist, f1).down > down

\* C5: the signal, stop and target equal the reference rule applied to the
\* last candle: LONG iff low < val < close, else SHORT iff close < vah < high,
\* else WAIT with neither stop nor target.
C5_SignalRule ==
    Evaluated =>
        LET c == df[Len(df)]
            long == c.Low * Scale < val /\ c.Close * Scale > val
            short == c.High * Scale > vah /\ c.Close * Scale < vah
        IN /\ signal = "LONG" <=> long
           /\ signal = "SHORT" <=> (~long /\ short)
           /\ signal = "WAIT" <=> (~long /\ ~short)
           /\ signal = "LONG" =>
                 /\ sl = {c.Low}
                 /\ tp = {c.Close + (c.Close - c.Low) * risk_reward}
           /\ signal = "SHORT" =>
                 /\ sl = {c.High}
                 /\ tp = {c.Close - (c.High - c.Close) * risk_reward}
           /\ signal = "WAIT" => sl = {} /\ tp = {}
C5_Witness ==
    /\ Evaluated
    /\ signal = "SHORT"
    /\ Len(df) > 1
    /\ df[1].High # df[Len(df)].High

\* C6 as stated: the LONG condition and the SHORT condition never both hold.
C6_Exclusive ==
    Evaluated =>
        ~(long_cond(df[Len(df)], val) /\ short_cond(df[Len(df)], vah))

\* C6 amended: both conditions hold only with low < val < close < vah < high,
\* and then the signal is LONG with the stop at the low; they never both hold
\* when the close is not strictly between val and vah.
C6_LongFirst ==
    Evaluated =>
        LET c == df[Len(df)]
            both == long_cond(c, val) /\ short_cond(c, vah)
        IN /\ both => signal = "LONG" /\ sl = {c.Low} /\ val < vah
           /\ (c.Close * Scale <= val \/ c.Close * Scale >= vah) => ~both
           /\ signal \in {"LONG", "SHORT", "WAIT"}
C6_Witness ==
    /\ Evaluated
    /\ long_cond(df[Len(df)], val)
    /\ short_cond(df[Len(df)], vah)
    /\ signal = "LONG"

\* C7: poc is the price of a bin of maximum volume, the lowest such bin.
C7_PocFirstMax ==
    /\ pc = "ret" =>
          /\ max_idx \in Bins
          /\ \A j \in Bins : hist[j] <= hist[max_idx]
          /\ \A j \in Bins : j < max_idx => hist[j] < hist[max_idx]
          /\ poc = bins[max_idx]
    /\ Evaluated => \E v \in vp_data : poc = v.price[max_idx]
C7_Witness ==
    /\ Evaluated
    /\ \E j \in Bins : j > max_idx /\ hist[j] = hist[max_idx] /\ hist[j] > 0

\* C8 as stated: a window whose candles all have the same close and the same
\* volume yields poc = vah = val = that price, without an exception.
C8_UniformWindow ==
    (Returned /\ \A i \in 1..Len(df) : df[i].Close = df[1].Close
                                        /\ df[i].Volume = df[1].Volume) =>
        /\ ~raised
        /\ poc = df[1].Close * Scale
        /\ vah = df[1].Close * Scale
        /\ val = df[1].Close * Scale

\* C9: an iteration moves exactly one index outward by one bin and adds that
\* bin's volume to curr: up when the upper side is available and its volume is
\* at least the lower one's (or the lower side is not available), down
\* otherwise; never into a side that is out of range.
C9_Step ==
    (pc = "loop" /\ pc' = "loop") =>
        LET cu == up < NBINS - 1
            cd == down > 0
            upward == cu /\ (~cd \/ hist[up + 1] >= hist[down - 1])
        IN /\ cu \/ cd
           /\ upward => /\ up' = up + 1 /\ down' = down
                        /\ curr' = curr + hist[up + 1]
           /\ ~upward => /\ down' = down - 1 /\ up' = up
                         /\ curr' = curr + hist[down - 1]
           /\ 0 <= down' /\ up' <= NBINS - 1
C9_StepProperty == [][C9_Step]_vars
C9_Witness ==
    /\ pc = "loop"
    /\ iters > 0
    /\ Cardinality(reads) = 2
    /\ down < max_idx
    /\ hist[down] > 0

\* Sum of the volumes of the first i candles of d whose close lies in
\* [lo, hi), or in [lo, hi] when closed.
RECURSIVE volume_within(_, _, _, _, _)
volume_within(d, i, lo, hi, closed) ==
    IF i = 0 THEN 0
    ELSE volume_within(d, i - 1, lo, hi, closed)
         + (IF /\ lo <= d[i].Close * Scale
               /\ (d[i].Close * Scale < hi \/ (closed /\ d[i].Close * Scale = hi))
            THEN d[i].Volume ELSE 0)

EqualWidthBins ==
    /\ DOMAIN bins = 0..NBINS
    /\ DOMAIN hist = Bins
    /\ bins[1] > bins[0]
    /\ \A i \in Bins : bins[i + 1] - bins[i] = bins[1] - bins[0]
CloseAttribution ==
    \A b \in Bins :
        hist[b] = volume_within(df, Len(df), bins[b], bins[b + 1], b = NBINS - 1)

====
